---- MODULE Spec2Model ----
(***************************************************************************)
(* Model of swiftly.concurrency.Concurrency (src/swiftly/concurrency.py).  *)
(*                                                                         *)
(* One Concurrency instance, one caller (the main greenlet / thread) and   *)
(* the units it spawns.  With a pool the units are eventlet greenlets:     *)
(* scheduling is cooperative, a unit's func may yield any number of times  *)
(* between its start and its end, and the caller yields inside spawn       *)
(* (GreenPool.spawn_n waiting for a slot, then sleep()) and inside join    *)
(* (GreenPool.waitall).  Between two calls the caller's own code may yield *)
(* as well (a polling loop that sleeps), so a started unit may end at any  *)
(* step in which the caller is not inside get_results.  Without a pool     *)
(* _spawner runs inside spawn.                                             *)
(*                                                                         *)
(* A unit's func is modelled by what one call of it does: it returns a     *)
(* value, or it raises an error that is an Exception or an eventlet        *)
(* Timeout (the failures of spec sections 4.2 and 7).  Errors that are     *)
(* neither (KeyboardInterrupt, SystemExit, GeneratorExit) are not inputs   *)
(* of the model; Spawner still says what the except clause does with an    *)
(* error it does not name: no pair is put and the error leaves _spawner.   *)
(***************************************************************************)
EXTENDS Integers, Sequences, FiniteSets, TLC

\* ---------------------------------------------------------------- bounds
MaxUnits == 2
MaxConc == 2
MaxIdent == 2

\* ------------------------------------------------------------ data domain
None == "None"

Idents == 1..MaxIdent

\* Return values of a func: None (a func that returns nothing) or a value.
Values == {None, "v"}

\* The error classes a func raises.  Timeout is eventlet.Timeout, a
\* BaseException that is not an Exception; it exists only with eventlet.
ErrTypes(evl) == IF evl THEN {"Exception", "Timeout"} ELSE {"Exception"}

Errors(evl) == [type : ErrTypes(evl), msg : {"boom"}]

\* What one call func(*args, **kwargs) does.
Funcs(evl) == [kind : {"return"}, val : Values] \cup [kind : {"raise"}, val : Errors(evl)]

\* The name Timeout of the module: eventlet's class, or Exception when the
\* import failed.
TimeoutName(evl) == IF evl THEN "Timeout" ELSE "Exception"

\* The name GreenPool of the module: the class, or None when the import failed.
GreenPoolName(evl) == IF evl THEN "GreenPool" ELSE None

\* A func that has not been called.
NoFunc == [kind |-> "none", val |-> None]

\* ------------------------------------------------------------------ state
VARIABLES
    eventlet,       \* TRUE iff `from eventlet import ...` succeeded
    concurrency,    \* self.concurrency
    pool,           \* self._pool: [on |-> FALSE] is None; else the GreenPool,
                    \* running its coroutines_running
    queue,          \* self._queue: sequence of <<ident, outcome>>
    results,        \* self._results: function ident -> outcome
    units,          \* the ident of each spawn call made so far, in order
    st,             \* per unit: "Spawning", "Queued", "Running", "Completed", "Failed"
    pc,             \* where the caller is: "idle", "spawn_n", "sleep", "waitall", "get"
    escaped,        \* units whose failure left _spawner
    did,            \* history: per ident, what the func of the unit that ended
                    \* last under it did
    last,           \* history: the last step: the call that returned or the unit
                    \* that ended in it, and what its func did
    ret,            \* history: the last get_results call (made at all, units in
                    \* flight when it was made, the step before it, spawn calls
                    \* made since)
    pair,           \* history: the last two get_results calls compared
    tally           \* history: the pairs each unit has put on the queue, the
                    \* calls made of its func, and the pairs get_results has
                    \* taken off the queue

vars == <<eventlet, concurrency, pool, queue, results, units, st, pc,
          escaped, did, last, ret, pair, tally>>

\* ---------------------------------------------------------------- helpers
EmptyMap == [x \in {} |-> None]

SetItem_KeepFirst(r, ident, value) ==
    [x \in DOMAIN r \cup {ident} |-> IF x \in DOMAIN r THEN r[x] ELSE value]

\* self._results[ident] = value
SetItem(r, ident, value) ==
    [x \in DOMAIN r \cup {ident} |-> IF x = ident THEN value ELSE r[x]]

Caught_ExceptionOnly(e, evl) == e.type = "Exception"

\* except (Exception, Timeout): does the clause catch error e?
Caught(e, evl) == e.type \in {"Exception", TimeoutName(evl)}

\* sys.exc_info() in the handler of error e
ExcInfo(e) == <<e.type, e, "traceback">>

UsePool_AnyConcurrency(c, evl) == GreenPoolName(evl) # None

\* if self.concurrency and GreenPool:
UsePool(c, evl) == c # 0 /\ GreenPoolName(evl) # None

Spawner_ResultLost(ident, func, evl) ==
    LET raised == func.kind = "raise"
        info   == IF raised THEN ExcInfo(func.val) ELSE <<None, None, None>>
    IN  [escapes |-> FALSE,
         puts    |-> << <<ident, <<info[1], info[2], info[3], None>>>> >>]

Spawner_PutTwice(ident, func, evl) ==
    LET raised == func.kind = "raise"
        info   == IF raised THEN ExcInfo(func.val) ELSE <<None, None, None>>
        result == IF raised THEN None ELSE func.val
        p      == <<ident, <<info[1], info[2], info[3], result>>>>
    IN  [escapes |-> FALSE, puts |-> IF raised THEN <<p, p>> ELSE <<p>>]

Spawner_StaleResult(ident, func, evl) ==
    LET raised == func.kind = "raise"
        info   == IF raised THEN ExcInfo(func.val) ELSE <<None, None, None>>
        result == IF raised THEN "v" ELSE func.val
    IN  [escapes |-> FALSE,
         puts    |-> << <<ident, <<info[1], info[2], info[3], result>>>> >>]

\* _spawner(ident, func): the pairs it puts on the queue, and whether the
\* error of func leaves it.
Spawner(ident, func, evl) ==
    LET raised == func.kind = "raise"
        caught == raised /\ Caught(func.val, evl)
        info   == IF caught THEN ExcInfo(func.val) ELSE <<None, None, None>>
        result == IF raised THEN None ELSE func.val
    IN  [escapes |-> raised /\ ~caught,
         puts    |-> IF raised /\ ~caught
                     THEN <<>>
                     ELSE << <<ident, <<info[1], info[2], info[3], result>>>> >>]

Drain_OnePair(q, r) ==
    IF q = <<>>
    THEN [queue |-> q, results |-> r]
    ELSE [queue |-> Tail(q), results |-> SetItem(r, Head(q)[1], Head(q)[2])]

RECURSIVE Drain_FreshStore(_, _)
Drain_FreshStore(q, r) ==
    IF q = <<>>
    THEN [queue |-> q, results |-> EmptyMap]
    ELSE LET d == Drain_FreshStore(Tail(q), r)
         IN  [queue |-> <<>>,
              results |-> IF Head(q)[1] \in DOMAIN d.results
                          THEN d.results
                          ELSE SetItem(d.results, Head(q)[1], Head(q)[2])]

Drain_StoreFirstOnly(q, r) ==
    IF q = <<>>
    THEN [queue |-> q, results |-> r]
    ELSE [queue |-> <<>>, results |-> SetItem(r, Head(q)[1], Head(q)[2])]

\* The loop of get_results: take pairs off the queue until queue.Empty,
\* storing each.  The queue and the store it leaves.
RECURSIVE Drain(_, _)
Drain(q, r) ==
    IF q = <<>>
    THEN [queue |-> q, results |-> r]
    ELSE Drain(Tail(q), SetItem(r, Head(q)[1], Head(q)[2]))

QueueGetBlock_True == TRUE

\* self._queue.get(block=False)
QueueGetBlock == FALSE

SlotFree_Always(c, running) == TRUE

SlotFree_OffByOne(c, running) == Cardinality(running) < c - 1

\* GreenPool.sem: spawn_n can take a slot
SlotFree(c, running) == Cardinality(running) < c

WaitallDone_Always(running) == TRUE

\* GreenPool.waitall: nothing to wait for (any more)
WaitallDone(running) == running = {}

\* ------------------------------------------------------------------- Init
Step(op, u, f) == [op |-> op, unit |-> u, func |-> f]

\* Module import, then Concurrency.__init__(concurrency).
Init ==
    /\ eventlet \in BOOLEAN
    /\ concurrency \in 0..MaxConc
    /\ pool = [on |-> UsePool(concurrency, eventlet), running |-> {}]
    /\ queue = <<>>
    /\ results = EmptyMap
    /\ units = <<>>
    /\ st = <<>>
    /\ pc = "idle"
    /\ escaped = {}
    /\ did = [i \in Idents |-> NoFunc]
    /\ last = Step("init", 0, NoFunc)
    /\ ret = [called |-> FALSE, inflight |-> FALSE, spawned |-> FALSE, after |-> "init"]
    /\ pair = [called |-> FALSE, inflight |-> FALSE, spawned |-> FALSE, equal |-> TRUE]
    /\ tally = [put |-> <<>>, call |-> <<>>, taken |-> 0]

InFlight == {u \in 1..Len(units) : st[u] \notin {"Completed", "Failed"}}

\* history: a spawn call has been made since the last get_results call
NoteSpawn == [ret EXCEPT !.spawned = ret.called]

\* history: n more for unit u in a per-unit count
Bump(count, u, n) ==
    [k \in DOMAIN count \cup {u} |->
        IF k = u THEN (IF u \in DOMAIN count THEN count[u] ELSE 0) + n ELSE count[k]]

\* self._spawner(ident, func) for unit u, whose func does f: the pair is put
\* on the queue, or the error leaves _spawner.
RunSpawner(u, ident, f) ==
    LET s == Spawner(ident, f, eventlet)
    IN  /\ queue' = queue \o s.puts
        /\ escaped' = IF s.escapes THEN escaped \cup {u} ELSE escaped
        /\ did' = [did EXCEPT ![ident] = f]
        /\ tally' = [tally EXCEPT !.put = Bump(@, u, Len(s.puts)),
                                   !.call = Bump(@, u, 1)]

\* ---------------------------------------------------------------- actions
\* spawn(ident, func) without a pool: self._spawner(ident, func) runs in the
\* caller and spawn returns (or the error that left _spawner leaves spawn).
SpawnSync(ident, f) ==
    LET u == Len(units) + 1
    IN  /\ pc = "idle"
        /\ ~pool.on
        /\ Len(units) < MaxUnits
        /\ units' = Append(units, ident)
        /\ RunSpawner(u, ident, f)
        /\ st' = Append(st, IF u \in escaped' THEN "Failed" ELSE "Completed")
        /\ last' = Step(IF u \in escaped' THEN "spawn_raised" ELSE "spawn", u, f)
        /\ ret' = NoteSpawn
        /\ UNCHANGED <<eventlet, concurrency, pool, results, pc, pair>>

\* GreenPool.spawn_n once it holds a slot: the greenlet is scheduled and
\* added to coroutines_running; spawn goes on to sleep().
Enqueue(u) ==
    /\ pool' = [pool EXCEPT !.running = @ \cup {u}]
    /\ pc' = "sleep"

\* spawn(ident, func) with a pool: self._pool.spawn_n(self._spawner, ...),
\* which takes a slot or waits for one.
SpawnPool(ident) ==
    LET u == Len(units) + 1
    IN  /\ pc = "idle"
        /\ pool.on
        /\ Len(units) < MaxUnits
        /\ units' = Append(units, ident)
        /\ IF SlotFree(concurrency, pool.running)
           THEN /\ st' = Append(st, "Queued")
                /\ Enqueue(u)
           ELSE /\ st' = Append(st, "Spawning")
                /\ pc' = "spawn_n"
                /\ pool' = pool
        /\ last' = Step("-", u, NoFunc)
        /\ ret' = NoteSpawn
        /\ tally' = [tally EXCEPT !.put = Append(@, 0), !.call = Append(@, 0)]
        /\ UNCHANGED <<eventlet, concurrency, queue, results, escaped, did, pair>>

\* spawn_n, waiting in sem.acquire(), gets the slot a finished unit released.
SpawnAcquire ==
    LET u == Len(units)
    IN  /\ pc = "spawn_n"
        /\ SlotFree(concurrency, pool.running)
        /\ st' = [st EXCEPT ![u] = "Queued"]
        /\ Enqueue(u)
        /\ last' = Step("-", u, NoFunc)
        /\ UNCHANGED <<eventlet, concurrency, queue, results, units, escaped,
                       did, ret, pair, tally>>

UnitStart_PublishesEarly(u) ==
    /\ u \in 1..Len(units)
    /\ st[u] = "Queued"
    /\ st' = [st EXCEPT ![u] = "Running"]
    /\ queue' = Append(queue, <<units[u], <<None, None, None, None>>>>)
    /\ tally' = [tally EXCEPT !.put = Bump(@, u, 1)]
    /\ last' = Step("start", u, NoFunc)
    /\ UNCHANGED <<eventlet, concurrency, pool, results, units, pc,
                   escaped, did, ret, pair>>

\* The hub switches to a scheduled greenlet: _spawner begins, func is called.
UnitStart(u) ==
    /\ u \in 1..Len(units)
    /\ st[u] = "Queued"
    /\ st' = [st EXCEPT ![u] = "Running"]
    /\ last' = Step("start", u, NoFunc)
    /\ UNCHANGED <<eventlet, concurrency, pool, queue, results, units, pc,
                   escaped, did, ret, pair, tally>>

UnitFinish_RetryOnFailure(u, f) ==
    /\ u \in 1..Len(units)
    /\ st[u] = "Running"
    /\ IF f.kind = "raise" /\ tally.call[u] = 0
       THEN /\ st' = [st EXCEPT ![u] = "Queued"]
            /\ tally' = [tally EXCEPT !.call = Bump(@, u, 1)]
            /\ UNCHANGED <<queue, escaped, did, pool>>
       ELSE /\ RunSpawner(u, units[u], f)
            /\ st' = [st EXCEPT ![u] = "Completed"]
            /\ pool' = [pool EXCEPT !.running = @ \ {u}]
    /\ last' = Step("finish", u, f)
    /\ UNCHANGED <<eventlet, concurrency, results, units, pc, ret, pair>>

UnitFinish_StoresDirectly(u, f) ==
    /\ u \in 1..Len(units)
    /\ st[u] = "Running"
    /\ results' = SetItem(results, units[u], Spawner(units[u], f, eventlet).puts[1][2])
    /\ did' = [did EXCEPT ![units[u]] = f]
    /\ tally' = [tally EXCEPT !.put = Bump(@, u, 1), !.call = Bump(@, u, 1)]
    /\ st' = [st EXCEPT ![u] = "Completed"]
    /\ pool' = [pool EXCEPT !.running = @ \ {u}]
    /\ last' = Step("finish", u, f)
    /\ UNCHANGED <<eventlet, concurrency, queue, escaped, units, pc, ret, pair>>

\* func ends (it returns or raises, f); _spawner puts the pair and returns;
\* GreenPool._spawn_done releases the slot.
UnitFinish(u, f) ==
    /\ u \in 1..Len(units)
    /\ st[u] = "Running"
    /\ RunSpawner(u, units[u], f)
    /\ st' = [st EXCEPT ![u] = IF u \in escaped' THEN "Failed" ELSE "Completed"]
    /\ pool' = [pool EXCEPT !.running = @ \ {u}]
    /\ last' = Step("finish", u, f)
    /\ UNCHANGED <<eventlet, concurrency, results, units, pc, ret, pair>>

SleepReturn_NoYield ==
    /\ pc = "sleep"
    /\ pc' = "idle"
    /\ last' = Step("spawn", Len(units), NoFunc)
    /\ UNCHANGED <<eventlet, concurrency, pool, queue, results, units, st,
                   escaped, did, ret, pair, tally>>

\* sleep() returns: the hub switches back to the caller, after the greenlets
\* scheduled before the caller's own wake-up have been switched to.
SleepReturn ==
    /\ pc = "sleep"
    /\ \A u \in 1..Len(units) : st[u] # "Queued"
    /\ pc' = "idle"
    /\ last' = Step("spawn", Len(units), NoFunc)
    /\ UNCHANGED <<eventlet, concurrency, pool, queue, results, units, st,
                   escaped, did, ret, pair, tally>>

\* get_results(): drain the queue into self._results and return it.  With a
\* blocking get the loop would wait on the empty queue and never return.
GetResults ==
    /\ \/ pc = "idle"
       \/ pc = "get" /\ queue # <<>>
    /\ LET d == Drain(queue, results)
       IN  /\ queue' = d.queue
           /\ results' = d.results
           /\ tally' = [tally EXCEPT !.taken = @ + Len(queue) - Len(d.queue)]
           /\ IF QueueGetBlock
              THEN /\ pc' = "get"
                   /\ last' = Step("-", 0, NoFunc)
                   /\ UNCHANGED <<ret, pair>>
              ELSE /\ pc' = "idle"
                   /\ last' = Step("get_results", 0, NoFunc)
                   /\ ret' = [called |-> TRUE, inflight |-> InFlight # {},
                              spawned |-> FALSE, after |-> last.op]
                   /\ pair' = [called |-> ret.called, inflight |-> ret.inflight,
                               spawned |-> ret.spawned,
                               equal |-> d.results = results]
    /\ UNCHANGED <<eventlet, concurrency, pool, units, st, escaped, did>>

\* join(): if self._pool: self._pool.waitall()
JoinCall ==
    /\ pc = "idle"
    /\ IF pool.on /\ ~WaitallDone(pool.running)
       THEN pc' = "waitall" /\ last' = Step("-", 0, NoFunc)
       ELSE pc' = "idle" /\ last' = Step("join", 0, NoFunc)
    /\ UNCHANGED <<eventlet, concurrency, pool, queue, results, units, st,
                   escaped, did, ret, pair, tally>>

JoinReturn_Drains ==
    /\ pc = "waitall"
    /\ WaitallDone(pool.running)
    /\ pc' = "idle"
    /\ last' = Step("join", 0, NoFunc)
    /\ queue' = <<>>
    /\ results' = Drain(queue, results).results
    /\ tally' = [tally EXCEPT !.taken = @ + Len(queue)]
    /\ UNCHANGED <<eventlet, concurrency, pool, units, st, escaped, did, ret, pair>>

\* waitall() returns: the last running coroutine has finished.
JoinReturn ==
    /\ pc = "waitall"
    /\ WaitallDone(pool.running)
    /\ pc' = "idle"
    /\ last' = Step("join", 0, NoFunc)
    /\ UNCHANGED <<eventlet, concurrency, pool, queue, results, units, st,
                   escaped, did, ret, pair, tally>>

Next ==
    \/ \E ident \in Idents, f \in Funcs(eventlet) : SpawnSync(ident, f)
    \/ \E ident \in Idents : SpawnPool(ident)
    \/ SpawnAcquire
    \/ \E u \in 1..MaxUnits : UnitStart(u)
    \/ \E u \in 1..MaxUnits, f \in Funcs(eventlet) : UnitFinish(u, f)
    \/ SleepReturn
    \/ GetResults
    \/ JoinCall
    \/ JoinReturn

Spec == Init /\ [][Next]_vars

\* The steps that are not calls of the caller: the hub running a scheduled
\* or waiting greenlet (a unit, or the caller inside spawn or join).
Progress ==
    \/ SpawnAcquire
    \/ \E u \in 1..MaxUnits : UnitStart(u)
    \/ \E u \in 1..MaxUnits, f \in Funcs(eventlet) : UnitFinish(u, f)
    \/ SleepReturn
    \/ JoinReturn

\* Whether and when a call returns does not depend on the identifier or on
\* the value or error of the func (_spawner catches the error and puts the
\* pair either way): for termination one identifier and one func of each
\* kind stand for all.
LiveIdents == {1}

LiveFuncs == {[kind |-> "return", val |-> "v"],
              [kind |-> "raise", val |-> [type |-> "Exception", msg |-> "boom"]]}

NextLive ==
    \/ \E ident \in LiveIdents, f \in LiveFuncs : SpawnSync(ident, f)
    \/ \E ident \in LiveIdents : SpawnPool(ident)
    \/ SpawnAcquire
    \/ \E u \in 1..MaxUnits : UnitStart(u)
    \/ \E u \in 1..MaxUnits, f \in LiveFuncs : UnitFinish(u, f)
    \/ SleepReturn
    \/ GetResults
    \/ JoinCall
    \/ JoinReturn

\* Fair scheduling, every func ending: the hub does not stop while a
\* greenlet can run.
SpecFair == Init /\ [][NextLive]_vars /\ WF_vars(Progress)

\* ----------------------------------------------------------------- claims
\* The outcome tuples (exc_type, exc_value, exc_tb, result) of the docstring
\* of get_results.
Success(v) == <<None, None, None, v>>

Failure(e) == <<e.type, e, "traceback", None>>

Expected(f) == IF f.kind = "raise" THEN Failure(f.val) ELSE Success(f.val)

Spawned == {units[u] : u \in 1..Len(units)}

UnitsOf(i) == {u \in 1..Len(units) : units[u] = i}

Running == {u \in 1..Len(units) : st[u] = "Running"}

PairsOf(i) == {k \in 1..Len(queue) : queue[k][1] = i}

\* The outcome of the pair put last on the queue for ident i.
NewestQueued(i) == queue[CHOOSE k \in PairsOf(i) : \A j \in PairsOf(i) : j <= k][2]

\* A unit has just ended (in the pool, or inside a synchronous spawn).
Ended == last.op \in {"finish", "spawn", "spawn_raised"} /\ last.func.kind # "none"

\* C1: N units with pairwise distinct identifiers spawned, then join()
\* returned, then get_results() called: the mapping has exactly N entries,
\* one per spawned identifier.
C1_AllResultsAfterJoin ==
    (last.op = "get_results" /\ ret.after = "join"
        /\ Cardinality(Spawned) = Len(units))
    => (DOMAIN results = Spawned /\ Cardinality(DOMAIN results) = Len(units))

C1_Witness ==
    /\ last.op = "get_results" /\ ret.after = "join"
    /\ pool.on /\ concurrency < Len(units)
    /\ Cardinality(Spawned) = Len(units)
    /\ Cardinality(DOMAIN results) = Len(units)

\* C2: with a pool of concurrency C, at most C units are executing (started
\* in _spawner and not yet returned from it) in every reachable state.
C2_AtMostCExecuting ==
    pool.on => Cardinality(Running) <= concurrency

C2_Witness ==
    /\ pool.on /\ pc = "spawn_n"
    /\ Cardinality(Running) = concurrency

\* C3: a unit whose func raises E (an Exception or a Timeout) publishes
\* (ident, (type(E), E, traceback, None)); the failure never leaves
\* _spawner, spawn or join; and no other unit's state changes when it ends.
C3_FailureCaptured ==
    /\ [](/\ escaped = {}
          /\ last.op # "spawn_raised"
          /\ \A u \in 1..Len(units) : st[u] # "Failed"
          /\ (Ended /\ last.func.kind = "raise")
             => /\ queue # <<>>
                /\ queue[Len(queue)] =
                     <<units[last.unit],
                       <<last.func.val.type, last.func.val, "traceback", None>>>>)
    /\ [][(last'.op = "finish" /\ last'.func.kind = "raise")
          => \A u \in 1..Len(units) : u # last'.unit => st'[u] = st[u]]_vars

C3_Witness ==
    /\ Ended /\ last.func.kind = "raise" /\ last.func.val.type = "Timeout"
    /\ Running # {}
    /\ queue # <<>> /\ queue[Len(queue)][2][1] = "Timeout"

\* C4: a unit whose func returns v publishes (ident, (None, None, None, v)),
\* and that is the outcome stored under its identifier once drained (until
\* a later unit of the same identifier publishes), with or without a pool.
C4_SuccessCarriesValue ==
    /\ (Ended /\ last.func.kind = "return")
       => /\ queue # <<>>
          /\ queue[Len(queue)] = <<units[last.unit], <<None, None, None, last.func.val>>>>
    /\ \A i \in Idents :
         did[i].kind = "return"
         => IF PairsOf(i) # {}
            THEN NewestQueued(i) = <<None, None, None, did[i].val>>
            ELSE i \in DOMAIN results /\ results[i] = <<None, None, None, did[i].val>>

C4_Witness ==
    \E i \in Idents :
        /\ did[i] = [kind |-> "return", val |-> "v"]
        /\ PairsOf(i) = {}
        /\ i \in DOMAIN results /\ results[i] = Success("v")
        /\ last.op = "get_results"

\* C5: when join() returns, every unit spawned before it has finished, has
\* put its pair on the queue and has released its slot.
C5_JoinWaitsForAll ==
    last.op = "join"
    => /\ \A u \in 1..Len(units) :
            /\ st[u] = "Completed"
            /\ PairsOf(units[u]) # {} \/ units[u] \in DOMAIN results
       /\ pool.running = {}

C5_Witness ==
    /\ last.op = "join" /\ pool.on
    /\ Len(units) > concurrency
    /\ Len(queue) = Len(units)

\* C6: without a pool (concurrency = 0, or no eventlet) spawn runs the unit
\* on the caller before returning: the caller never waits, the pair of X is
\* on the queue when spawn(X) returns, and a get_results() right after it
\* returns a mapping containing X.
Degraded == concurrency = 0 \/ ~eventlet

C6_DegradedSpawnIsSynchronous ==
    Degraded
    => /\ pc = "idle"
       /\ InFlight = {}
       /\ last.op = "spawn"
          => /\ last.func.kind # "none"
             /\ PairsOf(units[last.unit]) # {}
             /\ NewestQueued(units[last.unit]) = Expected(last.func)
       /\ (last.op = "get_results" /\ ret.after = "spawn")
          => units[Len(units)] \in DOMAIN results

C6_Witness ==
    /\ concurrency = 0 /\ eventlet
    /\ last.op = "get_results" /\ ret.after = "spawn"
    /\ units[Len(units)] \in DOMAIN results

\* C7 (as stated): two consecutive get_results() calls with no spawn call
\* between them return equal mappings.
C7_Original ==
    (last.op = "get_results" /\ pair.called /\ ~pair.spawned) => pair.equal

\* C7 (amended): two consecutive get_results() calls with no spawn call
\* between them, the first made when no spawned unit was still waiting,
\* queued or running, return equal mappings.
C7_IdempotentDrainWhenQuiet ==
    (last.op = "get_results" /\ pair.called /\ ~pair.spawned /\ ~pair.inflight)
    => pair.equal

C7_Witness ==
    /\ last.op = "get_results" /\ pair.called /\ ~pair.spawned /\ ~pair.inflight
    /\ pair.equal /\ results # EmptyMap /\ pool.on

\* C8: two units spawned under one identifier, both completed and drained:
\* the store holds one entry for it, the outcome of the unit that published
\* last.
C8_LastWriteWins ==
    \A i \in Idents :
        (/\ Cardinality(UnitsOf(i)) >= 2
         /\ \A u \in UnitsOf(i) : st[u] = "Completed"
         /\ PairsOf(i) = {})
        => /\ i \in DOMAIN results
           /\ results[i] = Expected(did[i])

C8_Witness ==
    \E i \in Idents :
        /\ Cardinality(UnitsOf(i)) >= 2
        /\ \A u \in UnitsOf(i) : st[u] = "Completed"
        /\ PairsOf(i) = {}
        /\ pair.called /\ ~pair.equal
        /\ results[i] = Expected(did[i])

\* C9: get_results() never waits, whatever the queue holds and whatever the
\* units are doing, and when it returns every pair that was on the queue at
\* the call is off the queue and in the store (the newest pair of each
\* identifier being the one stored).
C9_GetResultsDrainsWithoutBlocking ==
    /\ [](pc # "get")
    /\ [][last'.op = "get_results"
          => /\ queue' = <<>>
             /\ \A k \in 1..Len(queue) :
                  /\ queue[k][1] \in DOMAIN results'
                  /\ (\A j \in PairsOf(queue[k][1]) : j <= k)
                     => results'[queue[k][1]] = queue[k][2]]_vars

C9_Witness ==
    /\ last.op = "get_results"
    /\ InFlight # {}
    /\ queue = <<>> /\ results # EmptyMap

\* C10: with a pool, spawn returns without waiting for any unit to finish:
\* the caller is never held inside spawn until a unit ends.
C10_SpawnNeverWaitsForAUnit ==
    pc = "spawn_n" => SlotFree(concurrency, pool.running)

\* Sequence a is the front of sequence b: nothing was taken off it.
IsPrefix(a, b) == Len(a) <= Len(b) /\ \A k \in 1..Len(a) : b[k] = a[k]

\* The pairs all units have put on the queue so far.
RECURSIVE PutsUpTo(_)
PutsUpTo(n) == IF n = 0 THEN 0 ELSE tally.put[n] + PutsUpTo(n - 1)

\* The caller is inside join() before or after the step.
InJoin == pc = "waitall" \/ pc' = "waitall" \/ last'.op = "join"

\* C11: join() does not drain: a call of join() leaves the result store
\* unchanged and takes no pair off the queue; pairs put before or during
\* the join stay on the queue.
C11_JoinDoesNotDrain ==
    [][InJoin => /\ results' = results
                 /\ IsPrefix(queue, queue')
                 /\ tally'.taken = tally.taken]_vars

C11_Witness ==
    /\ last.op = "join" /\ pool.on
    /\ Len(queue) = Len(units) /\ Len(units) >= 2
    /\ results = EmptyMap

\* C12: the result store never loses an entry: a key of the store stays a
\* key in every later state, and its outcome changes only when get_results
\* drains a later pair of the same identifier.
C12_StoreNeverLosesEntry ==
    [][/\ DOMAIN results \subseteq DOMAIN results'
       /\ \A i \in DOMAIN results :
            results'[i] # results[i]
            => (last'.op = "get_results" /\ PairsOf(i) # {})]_vars

C12_Witness ==
    /\ last.op = "get_results" /\ pair.called /\ ~pair.equal
    /\ Cardinality(DOMAIN results) = 2

\* C13: every spawned unit's func is called once and _spawner puts exactly
\* one pair for it, whatever the func did: none before the func has ended,
\* one from then on, put before the unit's slot is released.
C13_ExactlyOnePairPerUnit ==
    /\ DOMAIN tally.put = 1..Len(units)
    /\ \A u \in 1..Len(units) :
         /\ st[u] # "Failed"
         /\ tally.put[u] = (IF st[u] = "Completed" THEN 1 ELSE 0)
         /\ tally.call[u] = (IF st[u] = "Completed" THEN 1 ELSE 0)
         /\ pool.on => (u \in pool.running <=> st[u] \in {"Queued", "Running"})

C13_Witness ==
    /\ Len(units) = 2
    /\ tally.put = <<1, 1>> /\ tally.call = <<1, 1>>
    /\ did[units[1]].kind = "raise" /\ did[units[2]].kind = "return"
    /\ units[1] # units[2]

\* C14: no pair is lost or duplicated between the put and the store: the
\* pairs on the queue and the pairs taken off it are together the pairs
\* put; a finished unit's identifier has a pair on the queue or an entry in
\* the store; the newest pair of an identifier, on the queue or else in the
\* store, is the one its last unit put.
C14_NoPairLostOrDuplicated ==
    /\ Len(queue) + tally.taken = PutsUpTo(Len(units))
    /\ \A u \in 1..Len(units) :
         st[u] = "Completed" => (PairsOf(units[u]) # {} \/ units[u] \in DOMAIN results)
    /\ \A i \in Idents :
         /\ Cardinality(PairsOf(i)) <= Cardinality({u \in UnitsOf(i) : st[u] = "Completed"})
         /\ did[i].kind # "none"
            => IF PairsOf(i) # {}
               THEN NewestQueued(i) = Expected(did[i])
               ELSE i \in DOMAIN results /\ results[i] = Expected(did[i])

C14_Witness ==
    /\ tally.taken >= 1 /\ queue # <<>>
    /\ last.op = "finish"
    /\ Len(units) = 2 /\ InFlight = {}

\* C15: an identifier is a key of the result store only after a unit
\* spawned under it has ended and put its pair and a get_results call has
\* taken that pair off the queue.
C15_VisibleOnlyAfterFinishAndDrain ==
    /\ \A i \in DOMAIN results :
         /\ ret.called
         /\ \E u \in UnitsOf(i) : st[u] = "Completed" /\ tally.put[u] >= 1
    /\ Cardinality(DOMAIN results) <= tally.taken

C15_Witness ==
    /\ pool.on
    /\ \E i \in DOMAIN results : \E u \in 1..Len(units) :
         /\ units[u] # i
         /\ st[u] = "Running"
         /\ units[u] \notin DOMAIN results

\* C16: a unit only moves forward, Queued (waiting for a slot or scheduled),
\* Running, Completed; it never goes back, is never removed, and is
\* Completed exactly when its pair has been put.
Rank(s) ==
    CASE s \in {"Spawning", "Queued"} -> 1
      [] s = "Running" -> 2
      [] s = "Completed" -> 3
      [] OTHER -> 0

C16_UnitsOnlyMoveForward ==
    /\ [](\A u \in 1..Len(units) :
            /\ Rank(st[u]) >= 1
            /\ st[u] = "Completed" <=> tally.put[u] >= 1)
    /\ [][/\ Len(units') >= Len(units)
          /\ \A u \in 1..Len(units) :
               /\ units'[u] = units[u]
               /\ Rank(st'[u]) >= Rank(st[u])
               /\ pool.on => Rank(st'[u]) <= Rank(st[u]) + 1]_vars

C16_Witness ==
    /\ Len(units) = 2
    /\ st[1] = "Completed" /\ st[2] = "Queued"
    /\ did[units[1]].kind = "raise"

\* C17: with a pool, spawn yields after scheduling the unit and before it
\* returns: when spawn returns the unit it scheduled has begun executing,
\* and no unit is left waiting or scheduled while the caller runs.
C17_SpawnYieldsBeforeReturn ==
    pool.on
    => /\ last.op = "spawn" => st[last.unit] \in {"Running", "Completed"}
       /\ pc = "idle" => \A u \in 1..Len(units) : st[u] \in {"Running", "Completed"}

C17_Witness ==
    /\ pool.on /\ last.op = "spawn"
    /\ last.unit = 2 /\ st[2] = "Running" /\ st[1] = "Running"

\* C18: the result store is written only by get_results; a unit's end
\* (in the pool or inside a synchronous spawn) appends one pair to the queue
\* and writes nothing else of the engine.
C18_StoreWrittenOnlyByGetResults ==
    [][/\ last'.op # "get_results" => results' = results
       /\ (last'.op \in {"finish", "spawn", "spawn_raised"} /\ last'.func.kind # "none")
          => /\ Len(queue') = Len(queue) + 1
             /\ IsPrefix(queue, queue')
             /\ concurrency' = concurrency
             /\ pool'.on = pool.on]_vars

C18_Witness ==
    /\ Ended /\ results # EmptyMap
    /\ units[last.unit] \notin DOMAIN results
    /\ queue # <<>>

\* C20: every outcome on the queue or in the result store is a 4-tuple,
\* either a failure (exc_type, exc_value, exc_tb set, result None) or a
\* success (exc_type, exc_value, exc_tb None, result the return value).
Outcomes == {queue[k][2] : k \in 1..Len(queue)} \cup {results[i] : i \in DOMAIN results}

WellFormed(o) ==
    /\ Len(o) = 4
    /\ IF o[1] = None
       THEN /\ o[3] = None
            /\ o[2] = None
            /\ o[4] \in Values
       ELSE /\ o[4] = None
            /\ o[3] = "traceback"
            /\ o[2] \in Errors(eventlet)
            /\ o[2].type = o[1]

C20_OutcomeShape == \A o \in Outcomes : WellFormed(o)

C20_Witness ==
    /\ \E i \in DOMAIN results : results[i] = <<None, None, None, None>>
    /\ \E k \in 1..Len(queue) : queue[k][2][1] = "Timeout" /\ queue[k][2][4] = None

\* C19: under fair scheduling, every func ending: every spawn call returns,
\* every spawned unit runs and puts its pair, and every join() call
\* returns, also with more units than slots.
C19_EverythingCompletes ==
    /\ (pc \in {"spawn_n", "sleep"}) ~> (pc = "idle")
    /\ (pc = "waitall") ~> (pc = "idle" /\ last.op = "join")
    /\ \A u \in 1..MaxUnits :
         (Len(units) >= u) ~> (Len(units) >= u /\ st[u] = "Completed" /\ tally.put[u] = 1)

C19_Witness ==
    /\ pool.on /\ concurrency = 1 /\ Len(units) = 2
    /\ last.op = "join"
    /\ st = <<"Completed", "Completed">> /\ tally.put = <<1, 1>>
====
